---- MODULE Spec2Model ----
(***************************************************************************)
(* litechain: a proof-of-stake ledger core.                                *)
(*   db.rs         AccountsDB   (ledger store: balances and stakes)        *)
(*   pool.rs       Mempool      (pending transactions, sequence counter)   *)
(*   builder.rs    BlockBuilder (build, validate_block, get_leader)        *)
(*   structures.rs transactions, blocks, ValidatorAccount::start           *)
(*                                                                         *)
(* The specifications share the variables below:                           *)
(*   SpecLedger  the ledger operations and execute() as pure functions of  *)
(*               an arbitrary ledger state and arbitrary arguments;        *)
(*   SpecSubmit  concurrent Mempool::send_transaction calls, one step per  *)
(*               atomic operation (fetch_add, DashMap insert);             *)
(*   Spec        the validator threads' start loops over the shared ledger *)
(*               and pool, with clients crediting, submitting and          *)
(*               cancelling in between;                                    *)
(*   SpecRun     the start loops alone, over a pool of valid transactions, *)
(*               every thread being scheduled fairly;                      *)
(*   SpecExec    one execute() under the write lock, one step per ledger   *)
(*               operation, with concurrent readers;                       *)
(*   SpecBuild   BlockBuilder::build on arbitrary pools and ledgers;       *)
(*   SpecRace    the start loops with client threads writing the ledger    *)
(*               under its write lock while the validators run;            *)
(*   SpecLocks   the start loops and the clients' set-up, one step per     *)
(*               lock acquisition that another thread can block.           *)
(***************************************************************************)
EXTENDS Integers, Sequences, FiniteSets, TLC

VARIABLES
    db,        \* AccountsDB: [accounts: Pubkey -> balance, validators: Pubkey -> [stake, last_finalized_hash]]
    pool,      \* Mempool.pool: sequence id -> Transaction
    counter,   \* Mempool.counter
    thread,    \* per started validator: position in start(), its own copy of self, locals
    dbWriter,  \* holder of the write lock of the RwLock around the ledger ("none" when free)
    client,    \* per submitting client: position in send_transaction and its locals
    cancelled, \* sequence ids removed by remove_transaction so far
    iterOrder, \* the iteration order of the DashMap db.validators (Spec)
    last       \* record of the operation completed last (arguments, state before, result)

vars == <<db, pool, counter, thread, dbWriter, client, cancelled, iterOrder, last>>

----------------------------------------------------------------------------
(* Bounds *)

\* u64::MAX scaled down: balances and stakes saturate here.
U64Max == 1500
\* submissions the pool accepts before the model stops submitting
MaxSubmits == 4
\* concurrent clients of SpecSubmit
NumClients == 3
\* client cancellations
MaxCancels == 1

----------------------------------------------------------------------------
(* Keys, amounts, signatures, transactions *)

UserKeys == {"A", "B"}
ValKeys == {"V1", "V2"}
Keys == UserKeys \cup ValKeys

Amts == {0, 500, 1000}
Balances == {0, 500, 1000, U64Max}

NoKey == "none"

\* The all-zero signature a transaction is constructed with: verifies for no key.
DEFAULT_SIGNATURE_BYTES == [by |-> NoKey, over |-> <<>>]

\* TransferTransaction::new / StakeTransaction::new.  For a Stake, `to` is the
\* field `validator` and `from` is the field `staker`.
TransferTransaction(to, from, amt, nonce) ==
    [kind |-> "Transfer", to |-> to, from |-> from, amt |-> amt, nonce |-> nonce,
     signature |-> DEFAULT_SIGNATURE_BYTES]

StakeTransaction(validator, staker, amt, nonce) ==
    [kind |-> "Stake", to |-> validator, from |-> staker, amt |-> amt, nonce |-> nonce,
     signature |-> DEFAULT_SIGNATURE_BYTES]

\* to || from || nonce || amt  (validator || staker || nonce || amt): no variant tag,
\* no signature.
serialize(tx) == <<tx.to, tx.from, tx.nonce, tx.amt>>

\* An ed25519 signature is determined by the signing key and the signed bytes.
sign(tx, signer) == [tx EXCEPT !.signature = [by |-> signer, over |-> serialize(tx)]]

verify_signature(tx, signer) ==
    /\ tx.signature.by = signer
    /\ tx.signature.over = serialize(tx)

get_signer(tx) == tx.from

----------------------------------------------------------------------------
(* AccountsDB *)

saturating_add(a, b) == IF a + b > U64Max THEN U64Max ELSE a + b
saturating_sub(a, b) == IF a < b THEN 0 ELSE a - b

Ok(d) == [ok |-> TRUE, err |-> "", db |-> d]
Err(e, d) == [ok |-> FALSE, err |-> e, db |-> d]

has_account(d, pubkey) == pubkey \in DOMAIN d.accounts
is_validator(d, pubkey) == pubkey \in DOMAIN d.validators

increase_account_balance(d, pubkey, delta) ==
    IF has_account(d, pubkey)
    THEN Ok([d EXCEPT !.accounts[pubkey] = saturating_add(@, delta)])
    ELSE Err("Account not found.", d)

\* decrease_account_balance with gte in place of gt
decrease_account_balance_ge(d, pubkey, delta) ==
    IF has_account(d, pubkey)
    THEN IF d.accounts[pubkey] >= delta
         THEN Ok([d EXCEPT !.accounts[pubkey] = saturating_sub(@, delta)])
         ELSE Err("Insufficient balance.", d)
    ELSE Err("Account not found.", d)

decrease_account_balance(d, pubkey, delta) ==
    IF has_account(d, pubkey)
    THEN IF d.accounts[pubkey] > delta
         THEN Ok([d EXCEPT !.accounts[pubkey] = saturating_sub(@, delta)])
         ELSE Err("Insufficient balance.", d)
    ELSE Err("Account not found.", d)

increase_validator_stake(d, pubkey, amt) ==
    IF is_validator(d, pubkey)
    THEN Ok([d EXCEPT !.validators[pubkey].stake = saturating_add(@, amt)])
    ELSE Err("Validator not found.", d)

----------------------------------------------------------------------------
(* TransactionSign::validate and ::execute *)

validate_transfer(tx, d) ==
    /\ has_account(d, tx.from)
    /\ has_account(d, tx.to)
    /\ verify_signature(tx, tx.from)
    /\ ~(d.accounts[tx.from] < tx.amt)

validate_stake(tx, d) ==
    /\ is_validator(d, tx.to)
    /\ has_account(d, tx.from)
    /\ verify_signature(tx, tx.from)
    /\ ~(d.accounts[tx.from] < tx.amt)

validate(tx, d) ==
    IF tx.kind = "Stake" THEN validate_stake(tx, d) ELSE validate_transfer(tx, d)

\* execute of a Transfer without the credit of `to`
execute_transfer_nocredit(tx, d) ==
    IF ~validate_transfer(tx, d) THEN Err("Invalid transaction in Transfer execute", d)
    ELSE IF d.accounts[tx.from] < tx.amt THEN Err("Staker balance less than amount", d)
    ELSE LET r1 == decrease_account_balance(d, tx.from, tx.amt) IN
         IF ~r1.ok THEN Err("Balance decrease failed", d) ELSE Ok(r1.db)

execute_transfer(tx, d) ==
    IF ~validate_transfer(tx, d) THEN Err("Invalid transaction in Transfer execute", d)
    ELSE IF d.accounts[tx.from] < tx.amt THEN Err("Staker balance less than amount", d)
    ELSE LET r1 == decrease_account_balance(d, tx.from, tx.amt) IN
         IF ~r1.ok THEN Err("Balance decrease failed", d)
         ELSE LET r2 == increase_account_balance(r1.db, tx.to, tx.amt) IN
              IF ~r2.ok THEN Err("Balance decrease failed", r1.db) ELSE Ok(r2.db)

\* Stake execute without the increase of the validator's stake
execute_stake_burning(tx, d) ==
    IF ~validate_stake(tx, d) THEN Err("Invalid transaction in Stake execute", d)
    ELSE IF d.accounts[tx.from] < tx.amt THEN Err("Staker balance less than amount", d)
    ELSE LET r1 == decrease_account_balance(d, tx.from, tx.amt) IN
         IF ~r1.ok THEN Err("Balance decrease failed", d) ELSE Ok(r1.db)

execute_stake(tx, d) ==
    IF ~validate_stake(tx, d) THEN Err("Invalid transaction in Stake execute", d)
    ELSE IF d.accounts[tx.from] < tx.amt THEN Err("Staker balance less than amount", d)
    ELSE LET r1 == decrease_account_balance(d, tx.from, tx.amt) IN
         IF ~r1.ok THEN Err("Balance decrease failed", d)
         ELSE LET r2 == increase_validator_stake(r1.db, tx.to, tx.amt) IN
              IF ~r2.ok THEN Err("Stake increase failed", r1.db) ELSE Ok(r2.db)

execute(tx, d) ==
    IF tx.kind = "Stake" THEN execute_stake(tx, d) ELSE execute_transfer(tx, d)

----------------------------------------------------------------------------
(* Blocks *)

\* [1; 32], the reserved hash of the genesis block
GenesisHash == <<1>>

\* Block::get_hash: SHA-256 over prev_hash, the timestamp and every transaction's
\* serialized bytes, taken as injective on what it digests.
get_hash(transactions, prev_hash, timestamp) ==
    <<prev_hash, timestamp, [i \in DOMAIN transactions |-> serialize(transactions[i])]>>

\* Block::new
NewBlock(transactions, prev_hash, timestamp) ==
    [transactions |-> transactions,
     hash |-> get_hash(transactions, prev_hash, timestamp),
     prev_hash |-> prev_hash,
     timestamp |-> timestamp]

\* create_genesis that derives the hash as Block::new does
create_genesis_hashed(timestamp) ==
    [transactions |-> <<>>, hash |-> get_hash(<<>>, GenesisHash, timestamp),
     prev_hash |-> GenesisHash, timestamp |-> timestamp]

\* Block::create_genesis
create_genesis(timestamp) ==
    [transactions |-> <<>>, hash |-> GenesisHash, prev_hash |-> GenesisHash,
     timestamp |-> timestamp]

NoBlock == [transactions |-> <<>>, hash |-> <<>>, prev_hash |-> <<>>, timestamp |-> 0]

----------------------------------------------------------------------------
(* Mempool *)

MAX_TRANSACTIONS_PER_BLOCK == 2

\* send_transaction without the signature check
send_transaction_nocheck(p, c, tx) ==
    [ok |-> TRUE, err |-> "", id |-> c, pool |-> (c :> tx) @@ p, counter |-> c + 1]

\* the result of send_transaction: Ok(id) or Err, with the pool and counter after it
send_transaction(p, c, tx) ==
    IF ~verify_signature(tx, get_signer(tx))
    THEN [ok |-> FALSE, err |-> "Signature invalid.", id |-> 0, pool |-> p, counter |-> c]
    ELSE [ok |-> TRUE, err |-> "", id |-> c, pool |-> (c :> tx) @@ p, counter |-> c + 1]

\* DashMap::remove
remove_transaction(p, id) == [i \in DOMAIN p \ {id} |-> p[i]]

Min(a, b) == IF a < b THEN a ELSE b

\* pool.iter().take(MAX_TRANSACTIONS_PER_BLOCK): the first entries in the map's
\* iteration order, which is any order.  The result is given as the sequences of
\* the ids taken; the transactions are p[id].
get_transactions_for_block(p) ==
    LET n == Min(MAX_TRANSACTIONS_PER_BLOCK, Cardinality(DOMAIN p)) IN
    {s \in [1..n -> DOMAIN p] : \A i, j \in 1..n : i # j => s[i] # s[j]}

\* the retain loop of ValidatorAccount::start: for every transaction of the block
\* keep only the pool entries whose transaction differs from it
retain(p, transactions) ==
    LET gone == {i \in DOMAIN p : \E k \in DOMAIN transactions : p[i] = transactions[k]}
    IN  [i \in DOMAIN p \ gone |-> p[i]]

----------------------------------------------------------------------------
(* BlockBuilder *)

\* the readings of the system clock (seconds since the epoch) at which blocks
\* are built: two different seconds
TimeStamps == {0, 1}

\* the first transaction of the sequence that fails the check of build and
\* validate_block, as an error; "" if none fails
RECURSIVE check_transactions(_, _, _, _)
check_transactions(transactions, d, i, what) ==
    IF i > Len(transactions) THEN ""
    ELSE IF ~verify_signature(transactions[i], get_signer(transactions[i]))
         THEN "Invalid transaction signature"
    ELSE IF ~validate(transactions[i], d) THEN what
    ELSE check_transactions(transactions, d, i + 1, what)

\* build that proposes from any non-empty pool
build_nonempty(p, d, prev_hash) ==
    IF Cardinality(DOMAIN p) >= 1
    THEN {LET transactions == [i \in DOMAIN s |-> p[s[i]]]
              e == check_transactions(transactions, d, 1, "Invalid transaction in block building")
          IN  IF e # ""
              THEN [ok |-> FALSE, err |-> e, block |-> NoBlock, ids |-> {}]
              ELSE [ok |-> TRUE, err |-> "", block |-> NewBlock(transactions, prev_hash, ts),
                    ids |-> {s[i] : i \in DOMAIN s}] :
          s \in get_transactions_for_block(p), ts \in TimeStamps}
    ELSE {[ok |-> TRUE, err |-> "", block |-> create_genesis(ts), ids |-> {}] : ts \in TimeStamps}

\* BlockBuilder::build: every result it can return on pool p and ledger d
build(p, d, prev_hash) ==
    IF Cardinality(DOMAIN p) >= MAX_TRANSACTIONS_PER_BLOCK
    THEN {LET transactions == [i \in DOMAIN s |-> p[s[i]]]
              e == check_transactions(transactions, d, 1, "Invalid transaction in block building")
          IN  IF e # ""
              THEN [ok |-> FALSE, err |-> e, block |-> NoBlock, ids |-> {}]
              ELSE [ok |-> TRUE, err |-> "", block |-> NewBlock(transactions, prev_hash, ts),
                    ids |-> {s[i] : i \in DOMAIN s}] :
          s \in get_transactions_for_block(p), ts \in TimeStamps}
    ELSE {[ok |-> TRUE, err |-> "", block |-> create_genesis(ts), ids |-> {}] : ts \in TimeStamps}

\* BlockBuilder::validate_block(..).is_ok()
validate_block(block, d) ==
    check_transactions(block.transactions, d, 1, "Invalid transaction in block validation") = ""

\* get_leader with min_by_key in place of max_by_key
get_leader_min(d, ord) ==
    LET isMin(i) == \A j \in DOMAIN ord :
                        d.validators[ord[i]].stake <= d.validators[ord[j]].stake
        i == CHOOSE i \in DOMAIN ord : isMin(i) /\ \A j \in DOMAIN ord : isMin(j) => j <= i
    IN  ord[i]

\* BlockBuilder::get_leader: max_by_key over db.validators.iter().  The map
\* iterates its entries in an order that is fixed while no entry is inserted or
\* removed (ord, a sequence of the registered keys); max_by_key returns the last
\* of the entries of maximal stake in that order.
get_leader(d, ord) ==
    LET isMax(i) == \A j \in DOMAIN ord :
                        d.validators[ord[j]].stake <= d.validators[ord[i]].stake
        i == CHOOSE i \in DOMAIN ord : isMax(i) /\ \A j \in DOMAIN ord : isMax(j) => j <= i
    IN  ord[i]

\* ValidatorAccount::vote of the validator registered under pubkey: its builder
\* references the shared ledger
\* vote of a validator set in which V2 validates nothing
vote_dissenting(pubkey, block, d) == pubkey # "V2" /\ validate_block(block, d)

vote(pubkey, block, d) == validate_block(block, d)

count_votes(block, d) == Cardinality({w \in DOMAIN d.validators : vote(w, block, d)})

min_votes(d) == Cardinality(DOMAIN d.validators) \div 2 + 1

\* AccountsDB::finalize_block: apply the block's transactions in block order, one
\* at a time, and abort at the first whose execution fails
RECURSIVE finalize_from(_, _, _)
finalize_from(d, transactions, i) ==
    IF i > Len(transactions) THEN Ok(d)
    ELSE LET r == execute(transactions[i], d) IN
         IF ~r.ok THEN Err("CommitFailed", r.db)
         ELSE finalize_from(r.db, transactions, i + 1)

finalize_block(d, block) == finalize_from(d, block.transactions, 1)

\* the loop over db_lock.validators.iter_mut() calling update_last_finalized_hash
update_last_finalized_hash(d, new_hash) ==
    [d EXCEPT !.validators = [v \in DOMAIN @ |-> [@[v] EXCEPT !.last_finalized_hash = new_hash]]]

----------------------------------------------------------------------------
(* The record of the last completed operation *)

NoTx == [kind |-> "none", to |-> NoKey, from |-> NoKey, amt |-> 0, nonce |-> 0,
         signature |-> DEFAULT_SIGNATURE_BYTES]

EmptyDb == [accounts |-> <<>>, validators |-> <<>>]

NoOp == [op |-> "none", tx |-> NoTx, key |-> NoKey, amt |-> 0, id |-> 0,
         pre |-> EmptyDb, prePool |-> <<>>, preCounter |-> 0,
         ok |-> TRUE, err |-> "", block |-> NoBlock, ids |-> {}, votes |-> 0,
         leader |-> NoKey]

----------------------------------------------------------------------------
(* SpecLedger: the ledger operations and execute() on arbitrary ledgers.     *)
(* Init draws the ledger, each action applies one operation to it.          *)

\* ValidatorAccount::new: stake 0, last_finalized_hash = genesis
NewValidator == [stake |-> 0, last_finalized_hash |-> GenesisHash]

Stakes == {0, 500, U64Max}

LedgerStates ==
    UNION {UNION {{[accounts |-> a, validators |-> [v \in V |-> [NewValidator EXCEPT !.stake = s[v]]]] :
                        a \in [U -> Balances], s \in [V -> Stakes]} :
                  U \in SUBSET UserKeys} :
           V \in SUBSET ValKeys}

\* every transaction a caller can construct and sign over the model's keys
TxUniverse ==
    LET unsigned == {TransferTransaction(to, from, amt, 0) :
                         to \in Keys, from \in UserKeys, amt \in Amts} \cup
                    {StakeTransaction(to, from, amt, 0) :
                         to \in Keys, from \in UserKeys, amt \in Amts}
    IN  unsigned \cup {sign(tx, k) : tx \in unsigned, k \in UserKeys}

IdleThreads == [v \in ValKeys |-> [pc |-> "off"]]
IdleClients == [c \in 1..NumClients |-> [pc |-> "off"]]

InitLedger ==
    /\ db \in LedgerStates
    /\ pool = <<>>
    /\ counter = 0
    /\ thread = IdleThreads
    /\ dbWriter = NoKey
    /\ client = IdleClients
    /\ iterOrder = <<>>
    /\ cancelled = {}
    /\ last = NoOp

LedgerFrame == UNCHANGED <<pool, counter, thread, dbWriter, iterOrder, client, cancelled>>

LCredit ==
    \E k \in UserKeys, a \in Amts :
        LET r == increase_account_balance(db, k, a) IN
        /\ last.op = "none"
        /\ db' = r.db
        /\ last' = [NoOp EXCEPT !.op = "credit", !.key = k, !.amt = a, !.pre = db,
                                !.ok = r.ok, !.err = r.err]
        /\ LedgerFrame

LDebit ==
    \E k \in UserKeys, a \in Amts :
        LET r == decrease_account_balance(db, k, a) IN
        /\ last.op = "none"
        /\ db' = r.db
        /\ last' = [NoOp EXCEPT !.op = "debit", !.key = k, !.amt = a, !.pre = db,
                                !.ok = r.ok, !.err = r.err]
        /\ LedgerFrame

LIncreaseStake ==
    \E k \in ValKeys, a \in Amts :
        LET r == increase_validator_stake(db, k, a) IN
        /\ last.op = "none"
        /\ db' = r.db
        /\ last' = [NoOp EXCEPT !.op = "increase_stake", !.key = k, !.amt = a, !.pre = db,
                                !.ok = r.ok, !.err = r.err]
        /\ LedgerFrame

LExecute ==
    \E tx \in TxUniverse :
        LET r == execute(tx, db) IN
        /\ last.op = "none"
        /\ db' = r.db
        /\ last' = [NoOp EXCEPT !.op = "execute", !.tx = tx, !.pre = db,
                                !.ok = r.ok, !.err = r.err]
        /\ LedgerFrame

NextLedger == LCredit \/ LDebit \/ LIncreaseStake \/ LExecute

SpecLedger == InitLedger /\ [][NextLedger]_vars

----------------------------------------------------------------------------
(* Claims on the ledger operations (SpecLedger) *)

\* the balance of pubkey in ledger d
Bal(d, pubkey) == d.accounts[pubkey]

\* every account but those in `except` has the same balance in d1 and d2
SameAccountsExcept(d1, d2, except) ==
    /\ DOMAIN d1.accounts = DOMAIN d2.accounts
    /\ \A k \in DOMAIN d1.accounts : k \notin except => Bal(d1, k) = Bal(d2, k)

\* C3: whenever validate(ledger) is true, execute(ledger) on that same ledger
\* returns Ok (the debit never fails after validation passed).
C3_ExecuteOkAfterValidate ==
    (last.op = "execute" /\ validate(last.tx, last.pre)) => last.ok

\* the credit of a Transfer saturates: the recipient's balance plus the amount
\* exceeds u64::MAX
CreditSaturates(tx, d) ==
    tx.to # tx.from /\ Bal(d, tx.to) + tx.amt > U64Max

\* C4: executing a valid Transfer(from, to, amt) leaves balance(from)+balance(to)
\* unchanged unless the credit saturates, also when from = to, and changes no
\* other balance and no stake.
C4_TransferPreservesSum ==
    (/\ last.op = "execute"
     /\ last.tx.kind = "Transfer"
     /\ validate(last.tx, last.pre)
     /\ ~CreditSaturates(last.tx, last.pre))
    => /\ Bal(db, last.tx.from) + Bal(db, last.tx.to)
            = Bal(last.pre, last.tx.from) + Bal(last.pre, last.tx.to)
       /\ SameAccountsExcept(db, last.pre, {last.tx.from, last.tx.to})
       /\ db.validators = last.pre.validators

\* a valid Transfer of a positive amount between two accounts has been executed
C4_Witness ==
    /\ last.op = "execute"
    /\ last.tx.kind = "Transfer"
    /\ last.ok
    /\ last.tx.amt > 0
    /\ last.tx.to # last.tx.from
    /\ ~CreditSaturates(last.tx, last.pre)
    /\ Bal(db, last.tx.to) = Bal(last.pre, last.tx.to) + last.tx.amt

\* C5: a debit of an existing account succeeds exactly when balance > amount and
\* then leaves balance - amount; with amount >= balance it fails with insufficient
\* balance, on an absent account with account not found; a failed debit changes
\* no balance.
C5_DebitStrict ==
    last.op = "debit" =>
        IF has_account(last.pre, last.key)
        THEN /\ last.ok <=> Bal(last.pre, last.key) > last.amt
             /\ last.ok => db = [last.pre EXCEPT !.accounts[last.key] = @ - last.amt]
             /\ ~last.ok => (last.err = "Insufficient balance." /\ db = last.pre)
        ELSE ~last.ok /\ last.err = "Account not found." /\ db = last.pre

\* a debit of exactly the whole (positive) balance has been refused
C5_Witness ==
    /\ last.op = "debit"
    /\ has_account(last.pre, last.key)
    /\ last.amt = Bal(last.pre, last.key)
    /\ last.amt > 0
    /\ ~last.ok

\* C10: executing a valid Stake(V, A, amt) decreases balance(A) by exactly amt and
\* increases stake(V) by exactly amt (unless the stake saturates) and changes no
\* other account or validator.
C10_StakeMovesAmount ==
    (/\ last.op = "execute"
     /\ last.tx.kind = "Stake"
     /\ validate(last.tx, last.pre)
     /\ last.pre.validators[last.tx.to].stake + last.tx.amt <= U64Max)
    => /\ Bal(db, last.tx.from) = Bal(last.pre, last.tx.from) - last.tx.amt
       /\ db.validators[last.tx.to].stake = last.pre.validators[last.tx.to].stake + last.tx.amt
       /\ SameAccountsExcept(db, last.pre, {last.tx.from})
       /\ \A v \in DOMAIN db.validators : v # last.tx.to => db.validators[v] = last.pre.validators[v]

----------------------------------------------------------------------------
(* Spec: validator threads and clients over the shared ledger and pool *)

\* the transactions clients submit: two properly signed ones and one whose
\* signature is by another key than its declared signer
TxInputs ==
    {sign(TransferTransaction("B", "A", 500, 0), "A"),
     sign(StakeTransaction("V1", "A", 500, 0), "A"),
     sign(TransferTransaction("B", "A", 500, 0), "B")}

\* the account clients credit, and by how much
CreditKeys == {"A"}
CreditAmts == {250, 500, 1000}

\* the orders in which a DashMap holding the keys V can iterate them
IterOrders(V) ==
    {ord \in [1..Cardinality(V) -> V] : \A i, j \in DOMAIN ord : i # j => ord[i] # ord[j]}

\* a validator thread before its first tick: `self` is the ValidatorAccount moved
\* into the thread, with its own last_finalized_hash
NewThread ==
    [pc |-> "sleep", last_finalized_hash |-> GenesisHash, block |-> NoBlock,
     ids |-> {}, votes |-> 0, pre |-> EmptyDb]

\* accounts A and B registered with balance 0, a non-empty set of validators
\* registered with stake 0 and started, the pool empty
Init ==
    /\ \E V \in SUBSET ValKeys \ {{}} :
          /\ db = [accounts |-> [k \in UserKeys |-> 0],
                   validators |-> [v \in V |-> NewValidator]]
          /\ thread = [v \in ValKeys |-> IF v \in V THEN NewThread ELSE [pc |-> "off"]]
          /\ iterOrder \in IterOrders(V)
    /\ pool = <<>>
    /\ counter = 0
    /\ dbWriter = NoKey
    /\ client = IdleClients
    /\ cancelled = {}
    /\ last = NoOp

\* a client credits an account (increase_account_balance under the ledger lock),
\* before the first submission as in the tests
Credit ==
    \E k \in CreditKeys, a \in CreditAmts :
        LET r == increase_account_balance(db, k, a) IN
        /\ dbWriter = NoKey
        /\ counter = 0
        /\ db' = r.db
        /\ last' = NoOp
        /\ UNCHANGED <<pool, counter, thread, dbWriter, iterOrder, client, cancelled>>

\* Mempool::send_transaction, as one step
Submit ==
    \E tx \in TxInputs :
        LET r == send_transaction(pool, counter, tx) IN
        /\ counter < MaxSubmits
        /\ pool' = r.pool
        /\ counter' = r.counter
        /\ last' = [NoOp EXCEPT !.op = "submit", !.tx = tx, !.id = r.id, !.prePool = pool,
                                !.preCounter = counter, !.ok = r.ok, !.err = r.err]
        /\ UNCHANGED <<db, thread, dbWriter, iterOrder, client, cancelled>>

\* Mempool::remove_transaction of an id that is in the pool
Cancel ==
    \E id \in DOMAIN pool :
        /\ Cardinality(cancelled) < MaxCancels
        /\ pool' = remove_transaction(pool, id)
        /\ cancelled' = cancelled \cup {id}
        /\ last' = NoOp
        /\ UNCHANGED <<db, counter, thread, dbWriter, iterOrder, client>>

\* start, after the sleep: get_leader; a validator that is the leader goes on to
\* build, any other stays in the loop
GetLeader(v) ==
    /\ thread[v].pc = "sleep"
    /\ dbWriter = NoKey
    /\ LET leader == get_leader(db, iterOrder) IN
          /\ thread' = IF leader = v THEN [thread EXCEPT ![v].pc = "build"]
                                     ELSE thread
          /\ last' = [NoOp EXCEPT !.op = "get_leader", !.key = v, !.leader = leader,
                                  !.pre = db, !.prePool = pool,
                                  !.preCounter = counter]
    /\ UNCHANGED <<db, pool, counter, dbWriter, iterOrder, client, cancelled>>

\* Build that takes the selected entries out of the pool
Build_removing(v) ==
    /\ thread[v].pc = "build"
    /\ dbWriter = NoKey
    /\ \E r \in build(pool, db, thread[v].last_finalized_hash) :
          /\ thread' = [thread EXCEPT ![v] =
                IF ~r.ok THEN [@ EXCEPT !.pc = "sleep"]
                ELSE IF r.block.hash = GenesisHash THEN [@ EXCEPT !.pc = "returned_ok"]
                ELSE [@ EXCEPT !.pc = "vote", !.block = r.block, !.ids = r.ids]]
          /\ pool' = [i \in DOMAIN pool \ r.ids |-> pool[i]]
          /\ last' = [NoOp EXCEPT !.op = "build", !.key = v, !.pre = db, !.prePool = pool,
                                  !.preCounter = counter, !.ok = r.ok, !.err = r.err,
                                  !.block = r.block, !.ids = r.ids]
    /\ UNCHANGED <<db, counter, dbWriter, iterOrder, client, cancelled>>

\* start: self.builder.build(self.last_finalized_hash) and the match on its result
Build(v) ==
    /\ thread[v].pc = "build"
    /\ dbWriter = NoKey
    /\ \E r \in build(pool, db, thread[v].last_finalized_hash) :
          /\ thread' = [thread EXCEPT ![v] =
                IF ~r.ok THEN [@ EXCEPT !.pc = "sleep"]
                ELSE IF r.block.hash = GenesisHash THEN [@ EXCEPT !.pc = "returned_ok"]
                ELSE [@ EXCEPT !.pc = "vote", !.block = r.block, !.ids = r.ids]]
          /\ last' = [NoOp EXCEPT !.op = "build", !.key = v, !.pre = db, !.prePool = pool,
                                  !.preCounter = counter, !.ok = r.ok, !.err = r.err,
                                  !.block = r.block, !.ids = r.ids]
    /\ UNCHANGED <<db, pool, counter, dbWriter, iterOrder, client, cancelled>>

\* Vote that takes the block's transactions out of the pool when the block is
\* rejected
Vote_pruning(v) ==
    /\ thread[v].pc = "vote"
    /\ dbWriter = NoKey
    /\ LET votes == count_votes(thread[v].block, db) IN
          /\ thread' = [thread EXCEPT ![v] =
                IF votes >= min_votes(db)
                THEN [@ EXCEPT !.pc = "commit", !.votes = votes, !.pre = db]
                ELSE [NewThread EXCEPT !.last_finalized_hash = thread[v].last_finalized_hash]]
          /\ last' = IF votes >= min_votes(db) THEN NoOp
                      ELSE [NoOp EXCEPT !.op = "rejected", !.key = v, !.pre = db,
                                        !.prePool = pool, !.block = thread[v].block,
                                        !.ids = thread[v].ids, !.votes = votes]
          /\ pool' = IF votes >= min_votes(db) THEN pool
                      ELSE retain(pool, thread[v].block.transactions)
    /\ UNCHANGED <<db, counter, dbWriter, iterOrder, client, cancelled>>

\* start: the votes of the registered validators on the proposed block, counted
\* under the ledger's read lock, and the comparison with min_votes
Vote(v) ==
    /\ thread[v].pc = "vote"
    /\ dbWriter = NoKey
    /\ LET votes == count_votes(thread[v].block, db) IN
          /\ thread' = [thread EXCEPT ![v] =
                IF votes >= min_votes(db)
                THEN [@ EXCEPT !.pc = "commit", !.votes = votes, !.pre = db]
                ELSE [NewThread EXCEPT !.last_finalized_hash = thread[v].last_finalized_hash]]
          /\ last' = IF votes >= min_votes(db) THEN NoOp
                      ELSE [NoOp EXCEPT !.op = "rejected", !.key = v, !.pre = db,
                                        !.prePool = pool, !.block = thread[v].block,
                                        !.ids = thread[v].ids, !.votes = votes]
    /\ UNCHANGED <<db, pool, counter, dbWriter, iterOrder, client, cancelled>>

\* Commit that applies the block without keeping the ledger's write lock
Commit_unlocked(v) ==
    /\ thread[v].pc = "commit"
    /\ LET r == finalize_block(db, thread[v].block) IN
          /\ db' = r.db
          /\ dbWriter' = NoKey
          /\ thread' = [thread EXCEPT ![v] =
                IF r.ok THEN [@ EXCEPT !.pc = "prune", !.pre = db]
                ELSE [NewThread EXCEPT !.pc = "returned_err",
                                       !.last_finalized_hash = thread[v].last_finalized_hash]]
          /\ last' = NoOp
    /\ UNCHANGED <<pool, counter, client, cancelled, iterOrder>>

\* start: the ledger's write lock and finalize_block; an error returns from start
\* (the ? operator), which drops the lock
Commit(v) ==
    /\ thread[v].pc = "commit"
    /\ dbWriter = NoKey
    /\ LET r == finalize_block(db, thread[v].block) IN
          /\ db' = r.db
          /\ dbWriter' = IF r.ok THEN v ELSE NoKey
          /\ thread' = [thread EXCEPT ![v] =
                IF r.ok THEN [@ EXCEPT !.pc = "prune", !.pre = db]
                ELSE [NewThread EXCEPT !.pc = "returned_err",
                                       !.last_finalized_hash = thread[v].last_finalized_hash]]
          /\ last' = IF r.ok THEN NoOp
                      ELSE [NoOp EXCEPT !.op = "commit_failed", !.key = v, !.pre = db,
                                        !.prePool = pool, !.block = thread[v].block,
                                        !.ids = thread[v].ids, !.votes = thread[v].votes,
                                        !.ok = FALSE, !.err = r.err]
    /\ UNCHANGED <<pool, counter, client, cancelled, iterOrder>>

\* start: the pool's write lock, the retain loop, the update of the registered
\* validators' last_finalized_hash, and the release of both locks
Prune(v) ==
    /\ thread[v].pc = "prune"
    /\ dbWriter = v
    /\ pool' = retain(pool, thread[v].block.transactions)
    /\ db' = update_last_finalized_hash(db, thread[v].block.hash)
    /\ dbWriter' = NoKey
    /\ thread' = [thread EXCEPT ![v] =
            [NewThread EXCEPT !.last_finalized_hash = thread[v].last_finalized_hash]]
    /\ last' = [NoOp EXCEPT !.op = "finalized", !.key = v, !.pre = thread[v].pre,
                            !.prePool = pool, !.block = thread[v].block,
                            !.ids = thread[v].ids, !.votes = thread[v].votes]
    /\ UNCHANGED <<counter, client, cancelled, iterOrder>>

Next ==
    \/ Credit
    \/ Submit
    \/ Cancel
    \/ \E v \in ValKeys : GetLeader(v)
    \/ \E v \in ValKeys : Build(v)
    \/ \E v \in ValKeys : Vote(v)
    \/ \E v \in ValKeys : Commit(v)
    \/ \E v \in ValKeys : Prune(v)

Spec == Init /\ [][Next]_vars

----------------------------------------------------------------------------
(* Claims on the validator rounds (Spec) *)

\* The round of validator last.key ended in the last step: last.op is "rejected"
\* (votes below min_votes), "commit_failed" (finalize_block returned an error) or
\* "finalized" (ledger applied, pool pruned, hashes updated).  last.pre is the
\* ledger before the commit (before the vote for "rejected"), last.prePool the
\* pool before the pruning, last.ids the pool entries build selected.
RoundEnded == last.op \in {"rejected", "commit_failed", "finalized"}

Started == {v \in ValKeys : thread[v].pc # "off"}

InBlock(tx, block) == \E i \in DOMAIN block.transactions : block.transactions[i] = tx

InPool(tx, p) == \E id \in DOMAIN p : p[id] = tx

Transfer500 == sign(TransferTransaction("B", "A", 500, 0), "A")

\* C1: in a proposal round with V registered validators the leader finalizes the
\* candidate block if and only if at least floor(V/2)+1 validators vote true.
C1_FinalizedIffQuorum ==
    RoundEnded =>
        (last.op = "finalized"
            <=> last.votes >= Cardinality(DOMAIN last.pre.validators) \div 2 + 1)

\* C2: finalization is all-or-nothing: after an attempt either every transaction
\* of the block is applied, the included transactions are out of the pool and the
\* validators' hashes are updated, or the ledger and the pool are exactly as
\* before the attempt.
C2_AllOrNothing ==
    /\ last.op = "finalized" =>
          /\ finalize_block(last.pre, last.block).ok
          /\ db = update_last_finalized_hash(finalize_block(last.pre, last.block).db,
                                             last.block.hash)
          /\ \A id \in DOMAIN pool : ~InBlock(pool[id], last.block)
    /\ last.op = "commit_failed" => (db = last.pre /\ pool = last.prePool)

\* C6: a transaction whose signature does not verify against its declared signer
\* is never admitted by submit, which then returns an error and leaves the pool
\* and the counter unchanged; no pool entry and no block returned by build holds
\* a transaction with an invalid signature.
C6_InvalidSignatureNeverAdmitted ==
    /\ (last.op = "submit" /\ ~verify_signature(last.tx, get_signer(last.tx)))
          => (~last.ok /\ pool = last.prePool /\ counter = last.preCounter)
    /\ \A id \in DOMAIN pool : verify_signature(pool[id], get_signer(pool[id]))
    /\ (last.op = "build" /\ last.ok) =>
          \A i \in DOMAIN last.block.transactions :
              verify_signature(last.block.transactions[i], get_signer(last.block.transactions[i]))
    /\ \A v \in Started : \A i \in DOMAIN thread[v].block.transactions :
          verify_signature(thread[v].block.transactions[i],
                           get_signer(thread[v].block.transactions[i]))

\* a badly signed transaction has just been refused while the pool holds entries
\* and a validator holds a block it built from them
C6_Witness ==
    /\ last.op = "submit"
    /\ ~verify_signature(last.tx, get_signer(last.tx))
    /\ ~last.ok
    /\ pool # <<>>
    /\ \E v \in Started : thread[v].pc = "vote" /\ Len(thread[v].block.transactions) > 0

\* C8: a successful finalization removes exactly the pool entries selected into
\* the block: every other entry, also one holding an equal transaction under
\* another sequence id, is still in the pool afterwards.
C8_OnlySelectedRemoved ==
    last.op = "finalized" =>
        /\ \A id \in DOMAIN last.prePool \ last.ids :
              id \in DOMAIN pool /\ pool[id] = last.prePool[id]
        /\ \A id \in last.ids : id \notin DOMAIN pool

\* the ledger and pool of the end-to-end scenario: A credited 1000, B at 0, the
\* single signed Transfer(A->B, 500) in the pool
E2EScenario ==
    /\ last.pre.accounts = [k \in UserKeys |-> IF k = "A" THEN 1000 ELSE 0]
    /\ last.prePool = (0 :> Transfer500)

----------------------------------------------------------------------------
(* SpecSubmit: concurrent send_transaction calls, one step per atomic operation *)

Clients == 1..NumClients

\* the counter value the clients start from
MaxIssuedBefore == 1

\* a load in place of the fetch_add
fetch_add_load(c) == [id |-> c, counter |-> c]

\* AtomicU64::fetch_add(1, SeqCst): the value read and the value stored, in one
\* atomic step
fetch_add(c) == [id |-> c, counter |-> c + 1]

\* DashMap::insert
insert(p, id, tx) == (id :> tx) @@ p

SubmitInputs ==
    {sign(TransferTransaction("B", "A", 500, 0), "A"),
     sign(StakeTransaction("V1", "A", 500, 0), "A"),
     sign(TransferTransaction("B", "A", 500, 0), "B")}

\* ids 0..c0-1 were issued earlier; any of their entries may have left the pool
InitSubmit ==
    /\ db = [accounts |-> [k \in UserKeys |-> 0], validators |-> [v \in ValKeys |-> NewValidator]]
    /\ \E c0 \in 0..MaxIssuedBefore, present \in SUBSET (0..MaxIssuedBefore - 1) :
          /\ present \subseteq 0..c0 - 1
          /\ counter = c0
          /\ pool = [i \in present |-> sign(TransferTransaction("B", "A", 1000, 0), "A")]
          /\ last = [NoOp EXCEPT !.preCounter = c0]
    /\ thread = IdleThreads
    /\ dbWriter = NoKey
    /\ client = [c \in Clients |-> [pc |-> "idle", tx |-> NoTx, id |-> 0]]
    /\ cancelled = {}
    /\ iterOrder = <<>>

SubmitFrame == UNCHANGED <<db, thread, dbWriter, iterOrder, last>>

\* send_transaction up to the signature check: a bad signature returns Err
CVerify(c) ==
    /\ client[c].pc = "idle"
    /\ \E tx \in SubmitInputs :
          client' = [client EXCEPT ![c].tx = tx,
                                   ![c].pc = IF verify_signature(tx, get_signer(tx))
                                             THEN "verified" ELSE "returned_err"]
    /\ UNCHANGED <<pool, counter, cancelled>>
    /\ SubmitFrame

\* let id = self.counter.fetch_add(1, Ordering::SeqCst)
CFetchAdd(c) ==
    /\ client[c].pc = "verified"
    /\ LET r == fetch_add(counter) IN
          /\ counter' = r.counter
          /\ client' = [client EXCEPT ![c].id = r.id, ![c].pc = "fetched"]
    /\ UNCHANGED <<pool, cancelled>>
    /\ SubmitFrame

\* self.pool.insert(id, tx); Ok(id)
CInsert(c) ==
    /\ client[c].pc = "fetched"
    /\ pool' = insert(pool, client[c].id, client[c].tx)
    /\ client' = [client EXCEPT ![c].pc = "returned_ok"]
    /\ UNCHANGED <<counter, cancelled>>
    /\ SubmitFrame

\* remove_transaction of an id that is in the pool, by another thread
CRemove ==
    /\ \E id \in DOMAIN pool :
          /\ pool' = remove_transaction(pool, id)
          /\ cancelled' = cancelled \cup {id}
    /\ UNCHANGED <<counter, client>>
    /\ SubmitFrame

NextSubmit ==
    \/ \E c \in Clients : CVerify(c)
    \/ \E c \in Clients : CFetchAdd(c)
    \/ \E c \in Clients : CInsert(c)
    \/ CRemove

SpecSubmit == InitSubmit /\ [][NextSubmit]_vars

----------------------------------------------------------------------------
(* Claims on concurrent submission (SpecSubmit) *)

\* the clients holding an id (fetch_add done), and those whose call returned Ok
HasId == {c \in Clients : client[c].pc \in {"fetched", "returned_ok"}}
Returned == {c \in Clients : client[c].pc = "returned_ok"}
AllReturned == \A c \in Clients : client[c].pc \in {"returned_ok", "returned_err"}

\* C7: for any interleaving of concurrent successful submits, the ids are pairwise
\* distinct, form the contiguous range following the ids issued before, are never
\* an id issued before (also when its entry was removed), and once all calls have
\* returned the pool holds every submitted transaction under its own id unless
\* that id was removed since.
C7_DistinctContiguousIds ==
    /\ \A c1, c2 \in HasId : c1 # c2 => client[c1].id # client[c2].id
    /\ {client[c].id : c \in HasId} = last.preCounter .. (last.preCounter + Cardinality(HasId) - 1)
    /\ counter = last.preCounter + Cardinality(HasId)
    /\ \A c \in Returned :
          \/ client[c].id \in cancelled
          \/ (client[c].id \in DOMAIN pool /\ pool[client[c].id] = client[c].tx)
    /\ \A c \in HasId : client[c].id >= last.preCounter

\* all clients have returned, at least two of them with an id, after ids had been
\* issued before, and every submitted transaction is in the pool
C7_Witness ==
    /\ AllReturned
    /\ Cardinality(Returned) >= 2
    /\ last.preCounter > 0
    /\ \A c \in Returned : client[c].id \in DOMAIN pool /\ pool[client[c].id] = client[c].tx

----------------------------------------------------------------------------
(* Claims on the start loop (Spec) *)

\* start has returned, with Ok(()) or with the error of finalize_block
LoopReturned(v) == thread[v].pc \in {"returned_ok", "returned_err"}

\* C11: a validator's start loop returns only when, as leader, it receives the
\* genesis sentinel from build; a build error, a round below the quorum and a
\* failed commit leave the validator in its loop, at the next tick.
C11_ReturnsOnlyOnIdle ==
    /\ \A v \in ValKeys : thread[v].pc # "returned_err"
    /\ (last.op = "build" /\ LoopReturned(last.key))
          => (last.ok /\ last.block.hash = GenesisHash)
    /\ (last.op = "build" /\ ~last.ok) => thread[last.key].pc = "sleep"
    /\ last.op \in {"rejected", "commit_failed"} => thread[last.key].pc = "sleep"

----------------------------------------------------------------------------
(* SpecRun: the registered validators all started over a pool of valid pending *)
(* transactions, with no client at work any more (test_run_blockchain after   *)
(* the locks of the set-up are dropped).  Every thread keeps being scheduled.  *)

\* the submitted transactions whose signature verifies
ValidInputs == {tx \in TxInputs : verify_signature(tx, get_signer(tx))}

\* the pools send_transaction leaves after k accepted submissions, k <= MaxSubmits
RunPools == UNION {[0..k - 1 -> ValidInputs] : k \in 0..MaxSubmits}

\* the balance of A after the credits of the set-up
RunBalances == {500, 750, 1000, 1250, 1500}

InitRun ==
    /\ \E V \in SUBSET ValKeys \ {{}}, a \in RunBalances, p \in RunPools :
          LET d == [accounts |-> [k \in UserKeys |-> IF k = "A" THEN a ELSE 0],
                    validators |-> [v \in V |-> NewValidator]]
          IN  /\ \A id \in DOMAIN p : validate(p[id], d)
              /\ db = d
              /\ pool = p
              /\ counter = Cardinality(DOMAIN p)
              /\ thread = [v \in ValKeys |-> IF v \in V THEN NewThread ELSE [pc |-> "off"]]
              /\ iterOrder \in IterOrders(V)
    /\ dbWriter = NoKey
    /\ client = IdleClients
    /\ cancelled = {}
    /\ last = NoOp

\* one step of the thread running start for validator v
ThreadStep(v) == GetLeader(v) \/ Build(v) \/ Vote(v) \/ Commit(v) \/ Prune(v)

NextRun ==
    \/ \E v \in ValKeys : GetLeader(v)
    \/ \E v \in ValKeys : Build(v)
    \/ \E v \in ValKeys : Vote(v)
    \/ \E v \in ValKeys : Commit(v)
    \/ \E v \in ValKeys : Prune(v)

\* the operating system keeps scheduling every thread that can take a step
FairRun == \A v \in ValKeys : WF_vars(ThreadStep(v))

SpecRun == InitRun /\ [][NextRun]_vars /\ FairRun

\* C12: with all registered validators started over a pool of valid pending
\* transactions and no further submissions, every validator's start loop
\* eventually returns, also the loop of a validator that is not the leader when
\* the pool becomes idle.
C12_AllLoopsReturn ==
    <>(\A v \in ValKeys : thread[v].pc # "off" => LoopReturned(v))

\* C13: whenever a validator's loop returns through the idle shutdown after
\* running over a pool of valid pending transactions with no further submissions,
\* the pool is empty: no admitted transaction is left pending.
C13_IdleShutdownEmptyPool ==
    (last.op = "build" /\ thread[last.key].pc = "returned_ok") => pool = <<>>

----------------------------------------------------------------------------
(* Claims on build (Spec) *)

\* transaction tx passes the two checks of build on ledger d
PassesChecks(tx, d) == verify_signature(tx, get_signer(tx)) /\ validate(tx, d)

\* the result of the build recorded in last is an error and no block, or a block
\* of at most MAX_TRANSACTIONS_PER_BLOCK current pool entries that all pass the
\* checks on the ledger of the build; the pool, its counter and the ledger are
\* as before the build
BuildAllOrNothing ==
    last.op = "build" =>
        /\ ~last.ok =>
              /\ last.block = NoBlock
              /\ thread[last.key].block = NoBlock
              /\ \E id \in DOMAIN last.prePool : ~PassesChecks(last.prePool[id], last.pre)
        /\ last.ok =>
              /\ Len(last.block.transactions) <= MAX_TRANSACTIONS_PER_BLOCK
              /\ Cardinality(last.ids) = Len(last.block.transactions)
              /\ last.ids \subseteq DOMAIN pool
              /\ \A i \in DOMAIN last.block.transactions :
                    /\ \E id \in last.ids : pool[id] = last.block.transactions[i]
                    /\ PassesChecks(last.block.transactions[i], last.pre)
        /\ (\E id \in last.ids : ~PassesChecks(last.prePool[id], last.pre)) => ~last.ok
        /\ db = last.pre
        /\ pool = last.prePool
        /\ counter = last.preCounter

\* a step in which validator v completes build (from pc "build") or the votes by
\* validate_block (from pc "vote")
BuildOrVoteStep(v) ==
    /\ thread[v].pc \in {"build", "vote"}
    /\ thread'[v] # thread[v]

\* C19: build is all-or-nothing and read-only: if a selected transaction fails
\* the signature check or the ledger validation it returns an error and no block;
\* otherwise every transaction of the returned block is a current pool entry that
\* passed both checks on the ledger of the build, and the block holds at most
\* MAX_TRANSACTIONS_PER_BLOCK of them.  build and validate_block leave the pool,
\* its sequence counter and the ledger unchanged.
C19_BuildAllOrNothingReadOnly ==
    /\ []BuildAllOrNothing
    /\ [][\A v \in ValKeys :
             BuildOrVoteStep(v) => (db' = db /\ pool' = pool /\ counter' = counter)]_vars

\* build has just returned an error from a pool of at least
\* MAX_TRANSACTIONS_PER_BLOCK entries, and the pool still holds them
C19_Witness ==
    /\ last.op = "build"
    /\ ~last.ok
    /\ Cardinality(DOMAIN last.prePool) >= MAX_TRANSACTIONS_PER_BLOCK
    /\ pool = last.prePool
    /\ thread[last.key].pc = "sleep"

----------------------------------------------------------------------------
(* Claims on the chain of finalized blocks (Spec) *)

\* C17: every candidate block a leader builds is chained to the most recently
\* finalized block: its prev_hash is the hash of the last block finalized before
\* it, the genesis sentinel if none has been finalized.
C17_ChainedToLastFinalized ==
    (last.op = "build" /\ last.ok /\ last.block.hash # GenesisHash)
    => \A w \in DOMAIN last.pre.validators :
          last.block.prev_hash = last.pre.validators[w].last_finalized_hash

\* C18: after every successful finalization the last_finalized_hash of every
\* validator, of each validator account registered in the ledger store and of
\* each running validator that proposes from its own last_finalized_hash, is the
\* hash of the block just finalized; outside a finalization all validators hold
\* the same last_finalized_hash.
C18_AllHashesUpdated ==
    /\ last.op = "finalized" =>
          /\ \A w \in DOMAIN db.validators :
                db.validators[w].last_finalized_hash = last.block.hash
          /\ \A v \in Started :
                ~LoopReturned(v) => thread[v].last_finalized_hash = last.block.hash
    /\ dbWriter = NoKey =>
          \A w \in DOMAIN db.validators : \A v \in Started :
              ~LoopReturned(v) =>
                  thread[v].last_finalized_hash = db.validators[w].last_finalized_hash

----------------------------------------------------------------------------
(* Claims on the locking of the ledger (Spec) *)

\* validator v has applied its block and has not yet pruned the pool and updated
\* the hashes
Finalizing(v) == thread[v].pc = "prune"

\* C16: a block that build returned and that validate_block accepts on a ledger
\* state is applied to that ledger state, one transaction at a time in block
\* order, without any execution failing, also when several of its transactions
\* spend from the same account.
C16_ValidatedBlockApplies ==
    \A v \in ValKeys :
        (/\ thread[v].pc \in {"vote", "commit"}
         /\ validate_block(thread[v].block, db))
        => finalize_block(db, thread[v].block).ok

\* C14: finalizations never interleave: from the moment a validator begins
\* applying a block until it has pruned the pool and updated the hashes, no other
\* validator takes a step (applies a transaction, prunes the pool or updates
\* hashes), and the ledger changes only by that validator's hash update.
C14_NoInterleavedFinalization ==
    [][\A v \in ValKeys :
          Finalizing(v) =>
              /\ \A w \in ValKeys \ {v} : thread'[w] = thread[w] /\ ~Finalizing(w)
              /\ db' # db => /\ ~Finalizing(v)'
                             /\ db' = update_last_finalized_hash(db, thread[v].block.hash)]_vars

\* a validator is between applying and pruning while another started validator
\* has become the leader by the stake just applied and is at its next tick
C14_Witness ==
    \E v, w \in ValKeys :
        /\ v # w
        /\ Finalizing(v)
        /\ thread[w].pc = "sleep"
        /\ get_leader(db, iterOrder) = w

----------------------------------------------------------------------------
(* SpecExec: the execution of one transaction under the ledger's write lock,  *)
(* one step per ledger operation of execute (the debit, then the credit or    *)
(* the stake increase), with threads that read the ledger under its read lock. *)

\* the threads reading the ledger (get_account, validate, validate_block,
\* get_leader)
Readers == {"r1", "r2"}

\* the finalizing thread
Writer == "V1"

InitExec ==
    /\ \E d \in LedgerStates, tx \in TxUniverse :
          /\ db = d
          /\ last = [NoOp EXCEPT !.op = "execute", !.tx = tx, !.pre = d]
    /\ pool = <<>>
    /\ counter = 0
    /\ thread = [v \in ValKeys |-> IF v = Writer THEN [pc |-> "commit"] ELSE [pc |-> "off"]]
    /\ dbWriter = NoKey
    /\ client = [r \in Readers |-> [pc |-> "idle", seen |-> EmptyDb]]
    /\ cancelled = {}
    /\ iterOrder = <<>>

ExecFrame == UNCHANGED <<pool, counter, cancelled, iterOrder, last>>

\* XLock that goes on to execute without taking the write lock
XLock_none(v) ==
    /\ thread[v].pc = "commit"
    /\ thread' = [thread EXCEPT ![v].pc = "debit"]
    /\ UNCHANGED <<db, dbWriter, client>>
    /\ ExecFrame

\* start: let mut db_lock = self.builder.db.write().unwrap()
XLock(v) ==
    /\ thread[v].pc = "commit"
    /\ dbWriter = NoKey
    /\ dbWriter' = v
    /\ thread' = [thread EXCEPT ![v].pc = "debit"]
    /\ UNCHANGED <<db, client>>
    /\ ExecFrame

\* execute up to and including decrease_account_balance; an Err returns and the
\* lock is dropped
XDebit(v) ==
    /\ thread[v].pc = "debit"
    /\ LET tx == last.tx
           r1 == decrease_account_balance(db, tx.from, tx.amt)
           fails == IF ~validate(tx, db) THEN TRUE
                    ELSE IF db.accounts[tx.from] < tx.amt THEN TRUE
                    ELSE ~r1.ok
       IN  IF fails
           THEN /\ db' = db
                /\ dbWriter' = NoKey
                /\ thread' = [thread EXCEPT ![v].pc = "returned_err"]
           ELSE /\ db' = r1.db
                /\ dbWriter' = dbWriter
                /\ thread' = [thread EXCEPT ![v].pc = "credit"]
    /\ UNCHANGED client
    /\ ExecFrame

\* execute from increase_account_balance (Transfer) or increase_validator_stake
\* (Stake) to its return, after which the lock is dropped
XCredit(v) ==
    /\ thread[v].pc = "credit"
    /\ LET tx == last.tx
           r2 == IF tx.kind = "Stake" THEN increase_validator_stake(db, tx.to, tx.amt)
                 ELSE increase_account_balance(db, tx.to, tx.amt)
       IN  /\ db' = r2.db
           /\ thread' = [thread EXCEPT ![v].pc = IF r2.ok THEN "returned_ok" ELSE "returned_err"]
    /\ dbWriter' = NoKey
    /\ UNCHANGED client
    /\ ExecFrame

\* a reader takes self.db.read(), reads the ledger and drops the lock
XRead(r) ==
    /\ client[r].pc = "idle"
    /\ dbWriter = NoKey
    /\ client' = [client EXCEPT ![r] = [pc |-> "read", seen |-> db]]
    /\ UNCHANGED <<db, thread, dbWriter>>
    /\ ExecFrame

NextExec ==
    \/ \E v \in ValKeys : XLock(v)
    \/ \E v \in ValKeys : XDebit(v)
    \/ \E v \in ValKeys : XCredit(v)
    \/ \E r \in Readers : XRead(r)

SpecExec == InitExec /\ [][NextExec]_vars

\* C15: no thread reading the ledger under read access observes the state of a
\* transaction's execution in which the signer has been debited and the recipient
\* not yet credited (or the stake not yet increased): every ledger a reader sees
\* is the one before the execution or the one execute returns, and the steps of
\* the execution make up the result of execute.
C15_NoIntermediateRead ==
    /\ \A r \in Readers :
          client[r].pc = "read" =>
              client[r].seen \in {last.pre, execute(last.tx, last.pre).db}
    /\ LoopReturned(Writer) =>
          /\ db = execute(last.tx, last.pre).db
          /\ (thread[Writer].pc = "returned_ok") = execute(last.tx, last.pre).ok

\* the signer is debited and the recipient not yet credited while one reader has
\* read the ledger before the execution and another is about to read
C15_Witness ==
    /\ thread[Writer].pc = "credit"
    /\ db # last.pre
    /\ db # execute(last.tx, last.pre).db
    /\ \E r1, r2 \in Readers :
          /\ client[r1].pc = "read" /\ client[r1].seen = last.pre
          /\ client[r2].pc = "idle"

----------------------------------------------------------------------------
(* SpecBuild: BlockBuilder::build as a function of the pool, the ledger and   *)
(* its argument prev_hash.  Init draws them, the one action is the call of    *)
(* build by a validator that is at that point of start.                       *)

\* the pools of up to MaxSubmits entries over the submitted transactions, also
\* the badly signed one (Mempool.pool is a public field)
BuildPools == UNION {[0..k - 1 -> TxInputs] : k \in 0..MaxSubmits}

\* the balance of A
BuildBalances == {0, 500, 1000, 1500}

\* the argument of build: the genesis hash or the hash of a block
PrevHashes == {GenesisHash, get_hash(<<>>, GenesisHash, 0)}

InitBuild ==
    /\ \E V \in {W \in SUBSET ValKeys : Writer \in W}, a \in BuildBalances,
          p \in BuildPools, h \in PrevHashes :
          /\ db = [accounts |-> [k \in UserKeys |-> IF k = "A" THEN a ELSE 0],
                   validators |-> [v \in V |-> NewValidator]]
          /\ pool = p
          /\ counter = Cardinality(DOMAIN p)
          /\ thread = [v \in ValKeys |->
                IF v = Writer
                THEN [NewThread EXCEPT !.pc = "build", !.last_finalized_hash = h]
                ELSE IF v \in V THEN NewThread ELSE [pc |-> "off"]]
          /\ iterOrder \in IterOrders(V)
    /\ dbWriter = NoKey
    /\ client = IdleClients
    /\ cancelled = {}
    /\ last = NoOp

NextBuild == \E v \in ValKeys : Build(v)

SpecBuild == InitBuild /\ [][NextBuild]_vars

\* C20: build returns the genesis sentinel (empty transaction list, hash and
\* prev_hash both all bytes 1, the same on every call of build_genesis) exactly
\* when the pool holds fewer entries than MAX_TRANSACTIONS_PER_BLOCK; when the
\* pool holds at least that many and the selected transactions are valid it
\* returns a block that is not the sentinel, with a non-empty transaction list,
\* chained to the prev_hash it was given.
C20_GenesisIffBelowThreshold ==
    last.op = "build" =>
          LET n == Cardinality(DOMAIN last.prePool) IN
          /\ n < MAX_TRANSACTIONS_PER_BLOCK =>
                /\ last.ok
                /\ last.block.transactions = <<>>
                /\ last.block.hash = GenesisHash
                /\ last.block.prev_hash = GenesisHash
          /\ (last.ok /\ last.block.hash = GenesisHash) => n < MAX_TRANSACTIONS_PER_BLOCK
          /\ (n >= MAX_TRANSACTIONS_PER_BLOCK /\ last.ok) =>
                /\ last.block.hash # GenesisHash
                /\ Len(last.block.transactions) >= 1
                /\ last.block.prev_hash = thread[last.key].last_finalized_hash
                /\ last.block.hash = get_hash(last.block.transactions, last.block.prev_hash,
                                              last.block.timestamp)
          /\ (/\ n >= MAX_TRANSACTIONS_PER_BLOCK
              /\ \A id \in DOMAIN last.prePool : PassesChecks(last.prePool[id], last.pre))
                => last.ok

\* build has returned a block of transactions chained to a prev_hash that is not
\* the genesis hash
C20_Witness ==
    /\ last.op = "build"
    /\ last.ok
    /\ Len(last.block.transactions) = MAX_TRANSACTIONS_PER_BLOCK
    /\ last.block.prev_hash # GenesisHash
    /\ last.block.prev_hash = thread[last.key].last_finalized_hash

----------------------------------------------------------------------------
(* Claims on the leader of a tick (Spec) *)

\* the last step was v's call of get_leader, which returned another validator
NonLeaderTick(v) ==
    /\ last.op = "get_leader"
    /\ last.key = v
    /\ last.leader # v

\* C22: get_leader returns a registered validator whose stake is at least the
\* stake of every registered validator; a validator leaves the top of its loop
\* to build, collect votes or finalize only in a tick whose get_leader returned
\* that validator; the tick of any other validator changes neither the ledger,
\* nor the pool, nor the id counter, nor any thread.
C22_OnlyLeaderActs ==
    /\ [](last.op = "get_leader" =>
            /\ last.leader \in DOMAIN last.pre.validators
            /\ \A w \in DOMAIN last.pre.validators :
                  last.pre.validators[w].stake
                      <= last.pre.validators[last.leader].stake)
    /\ [][\A v \in ValKeys :
            /\ (thread[v].pc = "sleep" /\ thread'[v].pc # "sleep") =>
                  /\ last'.op = "get_leader"
                  /\ last'.key = v
                  /\ last'.leader = v
                  /\ last'.pre = db
            /\ (thread'[v].pc \in {"build", "vote", "commit", "prune"}) =>
                  thread[v].pc # "off"
            /\ (thread[v].pc = "sleep" /\ last'.op = "get_leader" /\ last'.key = v
                 /\ last'.leader # v) =>
                  /\ db' = db
                  /\ pool' = pool
                  /\ counter' = counter
                  /\ thread' = thread]_vars

\* a validator has ticked without being the leader, the leader's stake being
\* larger than its own
C22_Witness ==
    \E v \in ValKeys :
        /\ NonLeaderTick(v)
        /\ v \in DOMAIN last.pre.validators
        /\ last.pre.validators[v].stake < last.pre.validators[last.leader].stake
        /\ db = last.pre
        /\ thread[v].pc = "sleep"

----------------------------------------------------------------------------
(* SpecRace: the validator threads of SpecRun together with client threads    *)
(* that each take the ledger's write lock once, while the validators run, to  *)
(* credit or debit account A.                                                 *)

\* the amount of a client's credit or debit
ClientAmt == 500

\* the pools that hold one full block, or one full block and one more transaction
RacePools ==
    {p \in RunPools : Cardinality(DOMAIN p) \in {MAX_TRANSACTIONS_PER_BLOCK,
                                                  MAX_TRANSACTIONS_PER_BLOCK + 1}}

InitRace ==
    /\ \E V \in SUBSET ValKeys \ {{}}, a \in RunBalances, p \in RacePools :
          LET d == [accounts |-> [k \in UserKeys |-> IF k = "A" THEN a ELSE 0],
                    validators |-> [v \in V |-> NewValidator]]
          IN  /\ \A id \in DOMAIN p : validate(p[id], d)
              /\ db = d
              /\ pool = p
              /\ counter = Cardinality(DOMAIN p)
              /\ thread = [v \in ValKeys |-> IF v \in V THEN NewThread ELSE [pc |-> "off"]]
              /\ iterOrder \in IterOrders(V)
    /\ dbWriter = NoKey
    /\ client = [c \in 1..NumClients |-> [pc |-> "idle"]]
    /\ cancelled = {}
    /\ last = NoOp

\* a client thread: db.write(), increase_account_balance, the lock dropped
ClientCredit(c) ==
    /\ client[c].pc = "idle"
    /\ dbWriter = NoKey
    /\ LET r == increase_account_balance(db, "A", ClientAmt) IN
          /\ db' = r.db
          /\ last' = [NoOp EXCEPT !.op = "client_credit", !.key = "A", !.amt = ClientAmt,
                                  !.pre = db, !.ok = r.ok, !.err = r.err]
    /\ client' = [client EXCEPT ![c].pc = "done"]
    /\ UNCHANGED <<pool, counter, thread, dbWriter, iterOrder, cancelled>>

\* a client thread: db.write(), decrease_account_balance, the lock dropped
ClientDebit(c) ==
    /\ client[c].pc = "idle"
    /\ dbWriter = NoKey
    /\ LET r == decrease_account_balance(db, "A", ClientAmt) IN
          /\ db' = r.db
          /\ last' = [NoOp EXCEPT !.op = "client_debit", !.key = "A", !.amt = ClientAmt,
                                  !.pre = db, !.ok = r.ok, !.err = r.err]
    /\ client' = [client EXCEPT ![c].pc = "done"]
    /\ UNCHANGED <<pool, counter, thread, dbWriter, iterOrder, cancelled>>

NextRace ==
    \/ \E c \in 1..NumClients : ClientCredit(c)
    \/ \E c \in 1..NumClients : ClientDebit(c)
    \/ \E v \in ValKeys : GetLeader(v)
    \/ \E v \in ValKeys : Build(v)
    \/ \E v \in ValKeys : Vote(v)
    \/ \E v \in ValKeys : Commit(v)
    \/ \E v \in ValKeys : Prune(v)

SpecRace == InitRace /\ [][NextRace]_vars

----------------------------------------------------------------------------
(* Claims on the rounds under concurrent ledger writes (SpecRace) *)

\* the step is validator v's step out of the vote point of start
VoteStep(v) == thread[v].pc = "vote" /\ thread'[v] # thread[v]

\* C21: a round whose vote count is below min_votes changes nothing: the pool,
\* the id counter, every balance, every stake and every validator's
\* last_finalized_hash (the registered copies and the thread's own) are after
\* the round what they were before, no other thread is touched, and the
\* validator is back at the top of its loop.
C21_RejectedRoundChangesNothing ==
    [][\A v \in ValKeys :
          (VoteStep(v) /\ count_votes(thread[v].block, db) < min_votes(db)) =>
              /\ db' = db
              /\ pool' = pool
              /\ counter' = counter
              /\ thread'[v].pc = "sleep"
              /\ thread'[v].last_finalized_hash = thread[v].last_finalized_hash
              /\ \A w \in ValKeys \ {v} : thread'[w] = thread[w]
              /\ last'.op = "rejected"
              /\ last'.votes < min_votes(db)]_vars

\* a block built by the leader of two validators has been rejected with no vote,
\* the pool still holding the block's transactions
C21_Witness ==
    /\ last.op = "rejected"
    /\ last.votes = 0
    /\ Cardinality(DOMAIN db.validators) = 2
    /\ Len(last.block.transactions) = MAX_TRANSACTIONS_PER_BLOCK
    /\ \A id \in last.ids : id \in DOMAIN pool
    /\ thread[last.key].pc = "sleep"

\* C23: no other thread writes the ledger between the vote on the leader's block
\* and the leader's commit: while a validator is between the two, the ledger is
\* the one against which the votes were computed.
C23_CommitOnVotedLedger ==
    \A v \in ValKeys : thread[v].pc = "commit" => db = thread[v].pre

RECURSIVE SumOf(_, _)
SumOf(f, S) ==
    IF S = {} THEN 0
    ELSE LET k == CHOOSE k \in S : TRUE IN f[k] + SumOf(f, S \ {k})

\* the sum of all balances plus the sum of all stakes
Total(d) ==
    SumOf(d.accounts, DOMAIN d.accounts)
        + SumOf([v \in DOMAIN d.validators |-> d.validators[v].stake], DOMAIN d.validators)

\* no addition of the step from d to e was cut at u64::MAX: the total fits in a
\* u64, or no balance and no stake of e is at u64::MAX
Unsaturated(d, e) ==
    \/ Total(d) <= U64Max
    \/ /\ \A k \in DOMAIN e.accounts : e.accounts[k] < U64Max
       /\ \A v \in DOMAIN e.validators : e.validators[v].stake < U64Max

\* C24: a step of a validator round (a finalization, a rejected round, a failed
\* commit) never changes the set of account keys or of validator keys, and,
\* when nothing saturates, leaves the sum of all balances plus all stakes
\* unchanged; only a client's step changes that sum.
C24_RoundsConserveTotal ==
    [][client' = client =>
          /\ DOMAIN db'.accounts = DOMAIN db.accounts
          /\ DOMAIN db'.validators = DOMAIN db.validators
          /\ Unsaturated(db, db') => Total(db') = Total(db)]_vars

\* a block holding a Transfer and a Stake has been finalized after a client's
\* write, and the total is the one before the commit
C24_Witness ==
    /\ last.op = "finalized"
    /\ \E i \in DOMAIN last.block.transactions : last.block.transactions[i].kind = "Stake"
    /\ \E i \in DOMAIN last.block.transactions : last.block.transactions[i].kind = "Transfer"
    /\ \E c \in 1..NumClients : client[c].pc = "done"
    /\ db.accounts # last.pre.accounts
    /\ Total(db) = Total(last.pre)

----------------------------------------------------------------------------
(* SpecLocks: the validator threads and the client threads of the tests' set-up *)
(* with one step per lock acquisition that another thread can block.  A lock   *)
(* taken and dropped within one step is not held between steps; the locks held *)
(* between steps are the pool's read lock of a validator inside build (taken at *)
(* builder.rs:25, before the ledger's read lock of builder.rs:26), the ledger's *)
(* write lock of a finalizing validator (structures.rs:305, before the pool's  *)
(* write lock of structures.rs:308) and the ledger's write lock of a client    *)
(* (tests.rs:172, before the pool's write lock of tests.rs:173).  A read lock   *)
(* is granted whenever no thread holds the write lock.                         *)

\* the client threads, each running the set-up of test_run_blockchain once
Setups == {"s1", "s2"}

Threads == ValKeys \cup Setups

InitLocks ==
    /\ \E V \in SUBSET ValKeys \ {{}}, a \in RunBalances, p \in RacePools :
          LET d == [accounts |-> [k \in UserKeys |-> IF k = "A" THEN a ELSE 0],
                    validators |-> [v \in V |-> NewValidator]]
          IN  /\ \A id \in DOMAIN p : validate(p[id], d)
              /\ db = d
              /\ pool = p
              /\ counter = Cardinality(DOMAIN p)
              /\ thread = [v \in ValKeys |-> IF v \in V THEN NewThread ELSE [pc |-> "off"]]
              /\ iterOrder \in IterOrders(V)
    /\ dbWriter = NoKey
    /\ client = [c \in Setups |-> [pc |-> "idle"]]
    /\ cancelled = {}
    /\ last = NoOp

\* the threads that hold the pool's read lock between steps
PoolReaders == {v \in ValKeys : thread[v].pc = "build_db"}

\* a client: db.write() is granted
SetupDb(c) ==
    /\ client[c].pc = "idle"
    /\ dbWriter = NoKey
    /\ dbWriter' = c
    /\ client' = [client EXCEPT ![c].pc = "has_db"]
    /\ last' = NoOp
    /\ UNCHANGED <<db, pool, counter, thread, iterOrder, cancelled>>

\* a client: mempool.write() is granted; the credit and a submission of the
\* set-up, then both locks are dropped
SetupPool(c) ==
    /\ client[c].pc = "has_db"
    /\ dbWriter = c
    /\ PoolReaders = {}
    /\ db' = increase_account_balance(db, "A", ClientAmt).db
    /\ \E tx \in ValidInputs :
          LET r == send_transaction(pool, counter, tx) IN
          IF counter < MaxSubmits
          THEN pool' = r.pool /\ counter' = r.counter
          ELSE pool' = pool /\ counter' = counter
    /\ dbWriter' = NoKey
    /\ client' = [client EXCEPT ![c].pc = "done"]
    /\ last' = NoOp
    /\ UNCHANGED <<thread, iterOrder, cancelled>>

\* build: mempool.read() is granted (no thread holds the pool's write lock
\* between steps)
BuildPoolRead(v) ==
    /\ thread[v].pc = "build"
    /\ thread' = [thread EXCEPT ![v].pc = "build_db"]
    /\ last' = NoOp
    /\ UNCHANGED <<db, pool, counter, dbWriter, iterOrder, client, cancelled>>

\* build: db.read() is granted; the rest of build, both guards dropped at its
\* return
BuildDbRead(v) ==
    /\ thread[v].pc = "build_db"
    /\ dbWriter = NoKey
    /\ \E r \in build(pool, db, thread[v].last_finalized_hash) :
          /\ thread' = [thread EXCEPT ![v] =
                IF ~r.ok THEN [@ EXCEPT !.pc = "sleep"]
                ELSE IF r.block.hash = GenesisHash THEN [@ EXCEPT !.pc = "returned_ok"]
                ELSE [@ EXCEPT !.pc = "vote", !.block = r.block, !.ids = r.ids]]
          /\ last' = [NoOp EXCEPT !.op = "build", !.key = v, !.pre = db, !.prePool = pool,
                                  !.preCounter = counter, !.ok = r.ok, !.err = r.err,
                                  !.block = r.block, !.ids = r.ids]
    /\ UNCHANGED <<db, pool, counter, dbWriter, iterOrder, client, cancelled>>

\* start: mempool.write() is granted to the validator that holds the ledger's
\* write lock; the retain loop and the hash update, then both locks are dropped
PruneLocked(v) ==
    /\ PoolReaders = {}
    /\ Prune(v)

NextLocks ==
    \/ \E c \in Setups : SetupDb(c)
    \/ \E c \in Setups : SetupPool(c)
    \/ \E v \in ValKeys : GetLeader(v)
    \/ \E v \in ValKeys : BuildPoolRead(v)
    \/ \E v \in ValKeys : BuildDbRead(v)
    \/ \E v \in ValKeys : Vote(v)
    \/ \E v \in ValKeys : Commit(v)
    \/ \E v \in ValKeys : PruneLocked(v)

SpecLocks == InitLocks /\ [][NextLocks]_vars

----------------------------------------------------------------------------
(* Claims on the lock order (SpecLocks) *)

\* the threads that hold the lock thread t is asking for
WaitsFor(t) ==
    LET DbWriters == IF dbWriter = NoKey THEN {} ELSE {dbWriter} \ {t} IN
    IF t \in ValKeys
    THEN IF thread[t].pc \in {"sleep", "build_db", "vote", "commit"} THEN DbWriters
         ELSE IF thread[t].pc = "prune" THEN PoolReaders \ {t}
         ELSE {}
    ELSE IF client[t].pc = "idle" THEN DbWriters
         ELSE IF client[t].pc = "has_db" THEN PoolReaders
         ELSE {}

\* C26: lock acquisition is deadlock-free: in no reachable state is there a set
\* of threads each of which asks for a lock held by threads of the set.
C26_DeadlockFree ==
    ~ \E S \in SUBSET Threads \ {{}} :
          \A t \in S : WaitsFor(t) # {} /\ WaitsFor(t) \subseteq S

====
